---- MODULE Spec2Model ----
(***************************************************************************)
(* Model of ctrlsim.py: the link-balancing controller                      *)
(* (LinkBalancerCtrl.handle_request), the resource ledger                  *)
(* (LinkBalancerSim.allocate_resources / free_resources) and the timestep  *)
(* loop (LinkBalancerSim.run).                                             *)
(*                                                                         *)
(* Bandwidth amounts are whole numbers of one unit; Python floats add and  *)
(* subtract such values exactly, and quotients of them compare like the    *)
(* exact fractions, so used/capacity values are integers here and link     *)
(* metrics are fractions <<numerator, denominator>>.  The metric functions *)
(* divide and multiply in doubles: there the quotient and the product are  *)
(* computed with their rounding to 53 bits, to tell a result of 0.0 from a *)
(* rounding residue.                                                       *)
(***************************************************************************)
EXTENDS Integers, Sequences, FiniteSets, Bags, TLC

\* ---------------------------------------------------------------- bounds
MaxT == 2
MaxReqs == 2
MaxSize == 2
MaxDur == 2
MaxKey == 2

\* -------------------------------------------------------------- topology
\* The graph s1 -> sw1 <-> sw2 <- s2 with the given capacities of the server
\* links and of the links between the switches
TwoSwitch(server_cap, switch_cap) ==
  [nodes |-> {"s1", "s2", "sw1", "sw2"},
   switches |-> {"sw1", "sw2"},
   edges |-> {<<"s1", "sw1">>, <<"sw1", "sw2">>, <<"sw2", "sw1">>, <<"s2", "sw2">>},
   cap |-> [e \in {<<"s1", "sw1">>, <<"sw1", "sw2">>, <<"sw2", "sw1">>, <<"s2", "sw2">>}
              |-> IF e[1] \in {"s1", "s2"} THEN server_cap ELSE switch_cap]]

\* The graphs handed to the Simulation.  two_switch is two_switch_topo()
\* with the capacities 100 and 1000 scaled down to 2 and 3, so that links
\* fill up within a few requests; two_switch_topo has the capacities of the
\* code (TestSimulator.graph is the same graph); unbalanced_known is the
\* graph of test_metric_unbalanced_known; one_switch is graph2 of
\* test_one_switch_unit_reqs; one_way is the scaled two-switch graph without
\* the link sw2 -> sw1, so that no directed path leads from s2 to sw1.
Topos ==
  [two_switch |-> TwoSwitch(2, 3),
   two_switch_topo |-> TwoSwitch(100, 1000),
   unbalanced_known |-> TwoSwitch(100, 100),
   one_switch |->
     [nodes |-> {"s1", "s2", "sw1"},
      switches |-> {"sw1"},
      edges |-> {<<"s1", "sw1">>, <<"s2", "sw1">>},
      cap |-> [e \in {<<"s1", "sw1">>, <<"s2", "sw1">>} |-> 100]],
   one_way |->
     [nodes |-> {"s1", "s2", "sw1", "sw2"},
      switches |-> {"sw1", "sw2"},
      edges |-> {<<"s1", "sw1">>, <<"sw1", "sw2">>, <<"s2", "sw2">>},
      cap |-> [e \in {<<"s1", "sw1">>, <<"sw1", "sw2">>, <<"s2", "sw2">>}
                 |-> IF e[1] \in {"s1", "s2"} THEN 2 ELSE 3]]]

\* zip(path[:-1], path[1:])
Links(path) == [j \in 1..(Len(path) - 1) |-> <<path[j], path[j + 1]>>]

\* All simple directed paths of graph g from src to dst.
SimplePaths(g, src, dst) ==
  {p \in UNION {[1..n -> g.nodes] : n \in 1..Cardinality(g.nodes)} :
     /\ p[1] = src
     /\ p[Len(p)] = dst
     /\ \A a, b \in 1..Len(p) : a # b => p[a] # p[b]
     /\ \A j \in 1..(Len(p) - 1) : <<p[j], p[j + 1]>> \in g.edges}

\* The function f tabulated over the finite set S
Table(S, f) == [x \in S |-> f[x]] @@ <<>>

\* nx.shortest_path(graph, src, dst) for every graph and node pair: a path of
\* minimum hop count; the empty sequence stands for the NetworkXNoPath
\* exception.
shortest_path ==
  Table(DOMAIN Topos,
        [t \in DOMAIN Topos |->
           Table(Topos[t].nodes \X Topos[t].nodes,
                 [sd \in Topos[t].nodes \X Topos[t].nodes |->
                    LET ps == SimplePaths(Topos[t], sd[1], sd[2]) IN
                    IF ps = {} THEN <<>>
                    ELSE CHOOSE p \in ps : \A q \in ps : Len(p) <= Len(q)])])

\* ----------------------------------------------------------- controllers
\* The controller lists handed to the Simulation: one controller owning both
\* switches, two_ctrls() with one switch each, the single controller of sw1
\* that the metric tests and test_one_switch_unit_reqs build, or two
\* controllers that both list sw2.
CtrlConfigs ==
  [one_ctrl |-> << [switches |-> <<"sw1", "sw2">>, servers |-> <<"s1", "s2">>] >>,
   two_ctrls |-> << [switches |-> <<"sw1">>, servers |-> <<"s1", "s2">>],
                    [switches |-> <<"sw2">>, servers |-> <<"s1", "s2">>] >>,
   sw1_ctrl |-> << [switches |-> <<"sw1">>, servers |-> <<"s1", "s2">>] >>,
   overlap |-> << [switches |-> <<"sw1", "sw2">>, servers |-> <<"s1", "s2">>],
                  [switches |-> <<"sw2">>, servers |-> <<"s1", "s2">>] >>]

Range(s) == {s[j] : j \in DOMAIN s}

VARIABLES
  topo,          \* name of the graph the Simulation was built on
  ctrls,         \* Simulation.ctrls: the list of controllers
  sw_to_ctrl,    \* Simulation.sw_to_ctrl: switch |-> index of its controller
  shared,        \* TRUE iff the controllers hold the Simulation's graph object
  i_bound,       \* TRUE iff the name i resolves inside handle_request
  used,          \* graph[u][v]["used"] of the Simulation's graph
  active_flows,  \* Simulation.active_flows: expiry |-> list of (path, resources)
  pc,            \* position of run: free, reqs, measure, done, error
  i,             \* run's loop index (the timestep)
  k,             \* number of requests of timestep i handled so far
  all_metrics,   \* run's result dict
  err,           \* name of the exception that ended run ("" if none)
  last,          \* history: the last operation and how it ended
  live,          \* history: bag of the flows admitted by run and not yet due
  seen           \* history: the used values handle_request read for the demand
                 \* just handled (<<>> when no handle_request call was the last step)

vars == <<topo, ctrls, sw_to_ctrl, shared, i_bound, used, active_flows, pc, i, k,
          all_metrics, err, last, live, seen>>

Nodes == Topos[topo].nodes

Edges == Topos[topo].edges

Cap == Topos[topo].cap

\* Simulation.__init__: the nodes whose type attribute is 'server' / 'switch'
Servers == Topos[topo].nodes \ Topos[topo].switches

Switches == Topos[topo].switches

\* ------------------------------------------------ LinkBalancerCtrl.handle_request
\* Mutant: the controllers read a copy of the graph that no allocation updates.
CtrlUsedStale == [e \in Edges |-> 0]

\* The used values of the graph object the controllers read: the Simulation's
\* own graph, or a separate graph object that no allocation ever touches.
CtrlUsed == IF shared THEN used ELSE [e \in Edges |-> 0]

\* a / b < c / d for fractions <<numerator, denominator>> with denominators > 0
FracLess(x, y) == x[1] * y[2] < y[1] * x[2]

\* max(linkmetrics) of a non-empty list
MaxMetric(ms) == CHOOSE m \in Range(ms) : \A n \in Range(ms) : ~FracLess(m, n)

\* Mutant: every link of a path is scored, whichever switch it touches.
ConsideredAll(ctrl, link) == TRUE

\* "if not (v in self.switches or u in self.switches): continue"
Considered(ctrl, link) ==
  \E j \in 1..Len(ctrl.switches) :
    link[2] = ctrl.switches[j] \/ link[1] = ctrl.switches[j]

\* linkmetric = (graph[u][v]["used"] + util) / capacity, on the graph named t
\* whose used attributes are u
LinkMetric(t, u, link, util) == <<u[link] + util, Topos[t].cap[link]>>

\* "if linkmetric > 1"
Oversubscribed(t, u, link, util) == FracLess(<<1, 1>>, LinkMetric(t, u, link, util))

\* The inner loop over the links of one path.  On an oversubscribed link the
\* code prints str(i): where the name i does not resolve (ib false) this
\* raises NameError; where it does, the statement "next" that follows is a
\* bare expression, the link's metric is left out and the loop goes on.
RECURSIVE ScorePath(_, _, _, _, _, _, _, _)
ScorePath(t, u, ib, ctrl, links, util, j, linkmetrics) ==
  IF j > Len(links) THEN [status |-> "ok", linkmetrics |-> linkmetrics]
  ELSE IF ~Considered(ctrl, links[j])
       THEN ScorePath(t, u, ib, ctrl, links, util, j + 1, linkmetrics)
  ELSE IF Oversubscribed(t, u, links[j], util)
       THEN IF ib
            THEN ScorePath(t, u, ib, ctrl, links, util, j + 1, linkmetrics)
            ELSE [status |-> "NameError", linkmetrics |-> linkmetrics]
  ELSE ScorePath(t, u, ib, ctrl, links, util, j + 1,
                 Append(linkmetrics, LinkMetric(t, u, links[j], util)))

\* The outer loop "for path in paths": pathmetric = max(linkmetrics), which
\* raises ValueError on an empty list, then "if pathmetric < bestpathmetric".
RECURSIVE BestPath(_, _, _, _, _, _, _, _, _)
BestPath(t, u, ib, ctrl, paths, util, j, bestpath, bestpathmetric) ==
  IF j > Len(paths) THEN [status |-> "ok", path |-> bestpath]
  ELSE LET sc == ScorePath(t, u, ib, ctrl, Links(paths[j]), util, 1, <<>>) IN
       IF sc.status # "ok" THEN [status |-> sc.status, path |-> <<>>]
       ELSE IF sc.linkmetrics = <<>> THEN [status |-> "ValueError", path |-> <<>>]
       ELSE LET pathmetric == MaxMetric(sc.linkmetrics) IN
            IF FracLess(pathmetric, bestpathmetric)
            THEN BestPath(t, u, ib, ctrl, paths, util, j + 1, paths[j], pathmetric)
            ELSE BestPath(t, u, ib, ctrl, paths, util, j + 1, bestpath, bestpathmetric)

\* The body of handle_request(sw, util, duration) on the graph named t with
\* used attributes u: [status, path]; status is "ok" when the call returns
\* (path <<>> is None) and the exception's name when it raises.
PathSelection(t, u, ib, ctrl, sw, util) ==
  LET paths == [j \in 1..Len(ctrl.servers) |->
                  shortest_path[t][<<ctrl.servers[j], sw>>]] IN
  IF \E j \in 1..Len(paths) : paths[j] = <<>>
  THEN [status |-> "NetworkXNoPath", path |-> <<>>]
  ELSE BestPath(t, u, ib, ctrl, paths, util, 1, <<>>, <<1, 1>>)

\* The graphs small enough for handle_request to be tabulated
SmallTopos == {t \in DOMAIN Topos : \A e \in Topos[t].edges : Topos[t].cap[e] <= 4}

\* The controllers of the configurations that live on the graph named t
CtrlsOn(t) ==
  {c \in UNION {Range(CtrlConfigs[n]) : n \in DOMAIN CtrlConfigs} :
     Range(c.switches) \cup Range(c.servers) \subseteq Topos[t].nodes}

\* PathSelection tabulated for the small graphs, keyed graph, i resolves,
\* size, switch, controller, used values
selection_table ==
  Table(SmallTopos, [t \in SmallTopos |->
    Table(BOOLEAN, [ib \in BOOLEAN |->
      Table(1..MaxSize, [util \in 1..MaxSize |->
        Table(Topos[t].switches, [sw \in Topos[t].switches |->
          Table(CtrlsOn(t), [ctrl \in CtrlsOn(t) |->
            LET us == {u \in [Topos[t].edges -> 0..4] :
                         \A e \in Topos[t].edges : u[e] <= Topos[t].cap[e]} IN
            Table(us, [u \in us |->
              PathSelection(t, u, ib, ctrl, sw, util)])])])])])])

\* handle_request(sw, util, duration) of controller ctrl in the current state
handle_request(ctrl, sw, util) ==
  IF /\ topo \in SmallTopos
     /\ util \in 1..MaxSize
     /\ sw \in Switches
     /\ \A e \in Edges : CtrlUsed[e] \in 0..Cap[e]
  THEN selection_table[topo][i_bound][util][sw][ctrl][CtrlUsed]
  ELSE PathSelection(topo, CtrlUsed, i_bound, ctrl, sw, util)

\* --------------------------------------------------------- Simulation.__init__
\* The dict sw_to_ctrl built from the controller list cs: every switch a
\* controller names |-> the index of that controller in cs
SwitchOwners(cs) ==
  [sw \in UNION {Range(cs[c].switches) : c \in 1..Len(cs)} |->
     CHOOSE c \in 1..Len(cs) : sw \in Range(cs[c].switches)]

\* "assert (not switch in self.sw_to_ctrl)" fails for the list cs: a switch
\* is listed a second time, by another controller or by the same one
Overlapping(cs) ==
  \E c \in 1..Len(cs), d \in 1..Len(cs) :
    \E a \in 1..Len(cs[c].switches), b \in 1..Len(cs[d].switches) :
      <<c, a>> # <<d, b>> /\ cs[c].switches[a] = cs[d].switches[b]

\* ------------------------------------- LinkBalancerSim.allocate_resources
\* Adds resources on every link of the path (the second loop over links).
AddOnPath(u, path, resources) ==
  [e \in DOMAIN u |->
     u[e] + resources * Cardinality({j \in 1..(Len(path) - 1) : Links(path)[j] = e})]

\* active_flows.setdefault(whenfree, []).append((path, resources))
Record(af, whenfree, flow) ==
  IF whenfree \in DOMAIN af
  THEN [af EXCEPT ![whenfree] = Append(@, flow)]
  ELSE [t \in DOMAIN af \cup {whenfree} |-> IF t = whenfree THEN <<flow>> ELSE af[t]]

\* Mutant: only the last link of the path is checked against its capacity.
RejectedLastLink(u, path, resources) ==
  LET l == Links(path)[Len(path) - 1] IN u[l] + resources > Cap[l]

\* "if (edge['used'] + resources > edge['capacity']): return" for some link
Rejected(u, path, resources) ==
  \E j \in 1..(Len(path) - 1) : u[Links(path)[j]] + resources > Cap[Links(path)[j]]

\* Mutant: the flow is recorded before the capacity check, so a refused
\* allocation leaves a flow in the ledger.
allocate_resources_recorded(u, af, path, resources, whenfree) ==
  IF path = <<>> THEN [used |-> u, active_flows |-> af, done |-> FALSE]
  ELSE IF Rejected(u, path, resources)
       THEN [used |-> u,
             active_flows |-> Record(af, whenfree, <<path, resources>>),
             done |-> FALSE]
  ELSE [used |-> AddOnPath(u, path, resources),
        active_flows |-> Record(af, whenfree, <<path, resources>>),
        done |-> TRUE]

\* allocate_resources(path, resources, whenfree) on the state (u, af)
allocate_resources(u, af, path, resources, whenfree) ==
  IF path = <<>> THEN [used |-> u, active_flows |-> af, done |-> FALSE]
  ELSE IF Rejected(u, path, resources)
       THEN [used |-> u, active_flows |-> af, done |-> FALSE]
  ELSE [used |-> AddOnPath(u, path, resources),
        active_flows |-> Record(af, whenfree, <<path, resources>>),
        done |-> TRUE]

\* ----------------------------------------- LinkBalancerSim.free_resources
\* Mutant: only the first link of every ending flow is given back.
RECURSIVE FreeFlowsFirstLink(_, _, _)
FreeFlowsFirstLink(u, flows, j) ==
  IF j > Len(flows) THEN u
  ELSE FreeFlowsFirstLink(AddOnPath(u, SubSeq(flows[j][1], 1, 2), 0 - flows[j][2]),
                          flows, j + 1)

\* The loop over the flows of one bucket, subtracting on every link.
RECURSIVE FreeFlows(_, _, _)
FreeFlows(u, flows, j) ==
  IF j > Len(flows) THEN u
  ELSE FreeFlows(AddOnPath(u, flows[j][1], 0 - flows[j][2]), flows, j + 1)

\* Mutant: the bucket is not popped after its flows were subtracted.
free_resources_nopop(u, af, timestep) ==
  IF timestep \in DOMAIN af
  THEN [used |-> FreeFlows(u, af[timestep], 1), active_flows |-> af]
  ELSE [used |-> u, active_flows |-> af]

\* Mutant: the flows of the following timestep are released as well.
free_resources_early(u, af, timestep) ==
  LET due == {timestep, timestep + 1} \cap DOMAIN af
      u1 == IF timestep \in due THEN FreeFlows(u, af[timestep], 1) ELSE u
      u2 == IF timestep + 1 \in due THEN FreeFlows(u1, af[timestep + 1], 1) ELSE u1
  IN [used |-> u2, active_flows |-> [t \in DOMAIN af \ due |-> af[t]]]

\* Mutant: only the first flow of the bucket is subtracted before the pop.
free_resources_first(u, af, timestep) ==
  IF timestep \in DOMAIN af
  THEN [used |-> FreeFlows(u, SubSeq(af[timestep], 1, 1), 1),
        active_flows |-> [t \in DOMAIN af \ {timestep} |-> af[t]]]
  ELSE [used |-> u, active_flows |-> af]

\* free_resources(timestep) on the state (u, af)
free_resources(u, af, timestep) ==
  IF timestep \in DOMAIN af
  THEN [used |-> FreeFlows(u, af[timestep], 1),
        active_flows |-> [t \in DOMAIN af \ {timestep} |-> af[t]]]
  ELSE [used |-> u, active_flows |-> af]

\* ------------------------------------------------------- float arithmetic
\* Python floats are IEEE-754 doubles: 53 significant bits, every operation
\* rounded to nearest, ties to even.  A positive double is [m, e]: m is its
\* 53-bit significand as five digits <<1, d1, d2, d3, d4>> of 13 bits each
\* below the leading 1, and e the exponent of the last bit: the value is
\* (2^52 + d1 * 2^39 + d2 * 2^26 + d3 * 2^13 + d4) * 2^e.  The whole numbers
\* that enter (used, capacity and their totals) are below 2^13.
Radix == 2 ^ 13

\* The number of binary digits of the whole number n >= 1
RECURSIVE BitLength(_)
BitLength(n) == IF n <= 1 THEN 1 ELSE 1 + BitLength(n \div 2)

\* The significand m plus one unit in the last place: m + 1 and the exponent
\* e, or 2^52 and e + 1 when the significand overflows
NextUp(m, e) ==
  LET c4 == IF m[5] + 1 = Radix THEN 1 ELSE 0
      c3 == IF m[4] + c4 = Radix THEN 1 ELSE 0
      c2 == IF m[3] + c3 = Radix THEN 1 ELSE 0
      c1 == IF m[2] + c2 = Radix THEN 1 ELSE 0
  IN IF c1 = 1 THEN [m |-> <<1, 0, 0, 0, 0>>, e |-> e + 1]
     ELSE [m |-> <<1, (m[2] + c2) % Radix, (m[3] + c3) % Radix,
                   (m[4] + c4) % Radix, (m[5] + 1) % Radix>>,
           e |-> e]

\* Round to nearest, ties to even: guard is the first bit left out of the
\* significand m, sticky tells whether any later bit is 1
RoundNearestEven(m, e, guard, sticky) ==
  IF guard = 1 /\ (sticky \/ m[5] % 2 = 1) THEN NextUp(m, e)
  ELSE [m |-> m, e |-> e]

\* The bits left out were not all 0: the operation rounded
Inexact(guard, sticky) == guard = 1 \/ sticky

\* a / b scaled by powers of two until b <= a < 2b: [a, b, s], the quotient
\* being (a / b) * 2^s
RECURSIVE Normalized(_, _, _)
Normalized(a, b, s) ==
  IF a < b THEN Normalized(2 * a, b, s - 1)
  ELSE IF a >= 2 * b THEN Normalized(a, 2 * b, s + 1)
  ELSE [a |-> a, b |-> b, s |-> s]

\* The double x / y for whole numbers x, y >= 1: long division, 13 bits at
\* a time, then the rounding of the 53-bit quotient; rounded tells whether
\* the double differs from the exact quotient
FloatDiv(x, y) ==
  LET n == Normalized(x, y, 0)
      r0 == n.a - n.b
      d1 == (r0 * Radix) \div n.b
      r1 == (r0 * Radix) % n.b
      d2 == (r1 * Radix) \div n.b
      r2 == (r1 * Radix) % n.b
      d3 == (r2 * Radix) \div n.b
      r3 == (r2 * Radix) % n.b
      d4 == (r3 * Radix) \div n.b
      r4 == (r3 * Radix) % n.b
      guard == (2 * r4) \div n.b
      sticky == (2 * r4) % n.b # 0
      q == RoundNearestEven(<<1, d1, d2, d3, d4>>, n.s - 52, guard, sticky)
  IN [m |-> q.m, e |-> q.e, rounded |-> Inexact(guard, sticky)]

\* The double d * c for a double d and a whole number c >= 1: the exact
\* product digit by digit, then its leading 53 bits, rounded
FloatTimes(d, c) ==
  LET p4 == d.m[5] * c
      p3 == d.m[4] * c + p4 \div Radix
      p2 == d.m[3] * c + p3 \div Radix
      p1 == d.m[2] * c + p2 \div Radix
      p0 == d.m[1] * c + p1 \div Radix
      t == BitLength(p0) - 1
      low == 2 ^ t
      high == Radix \div low
      shifted(upper, digit) == (upper % low) * high + (digit % Radix) \div low
      dropped == (p4 % Radix) % low
      guard == IF t = 0 THEN 0 ELSE dropped \div (low \div 2)
      sticky == t > 0 /\ dropped % (low \div 2) # 0
      q == RoundNearestEven(<<1, shifted(p0, p1), shifted(p1, p2),
                              shifted(p2, p3), shifted(p3, p4)>>,
                            d.e + t, guard, sticky)
  IN [m |-> q.m, e |-> q.e, rounded |-> d.rounded \/ Inexact(guard, sticky)]

\* The double d is the whole number n, 1 <= n < 2^13
FloatIsWhole(d, n) ==
  LET len == BitLength(n) IN
  /\ d.e = len - 53
  /\ d.m = <<1, (n - 2 ^ (len - 1)) * 2 ^ (14 - len), 0, 0, 0>>

\* ------------------------------------------------------------------ metrics
RECURSIVE SumOver(_, _)
SumOver(S, f) ==
  IF S = {} THEN 0
  ELSE LET x == CHOOSE y \in S : TRUE IN f[x] + SumOver(S \ {x}, f)

RECURSIVE GCD(_, _)
GCD(a, b) == IF b = 0 THEN a ELSE GCD(b, a % b)

\* The greatest common divisor of the whole numbers of the set S and c
RECURSIVE GCDOver(_, _)
GCDOver(S, c) ==
  IF S = {} THEN c
  ELSE LET x == CHOOSE y \in S : TRUE IN GCDOver(S \ {x}, GCD(x, c))

\* The edges over which rmse_servers runs: the outgoing links of the servers
ServerLinks(g) == {e \in g.edges : e[1] \in g.nodes \ g.switches}

\* Mutant: the total is divided by the edge's capacity and multiplied by the
\* total capacity.
OptUsedSwapped(used_total, cap_total, capacity) ==
  FloatTimes(FloatDiv(used_total, capacity), cap_total)

\* "opt_used = (used_total / cap_total) * capacity" for used_total >= 1
OptUsed(used_total, cap_total, capacity) ==
  FloatTimes(FloatDiv(used_total, cap_total), capacity)

\* "used - opt_used" is 0.0: the double opt_used equals the whole number u
\* (used values are not negative where a metric is taken)
NoDeviation(used_total, cap_total, capacity, u) ==
  IF used_total = 0 THEN u = 0
  ELSE u > 0 /\ FloatIsWhole(OptUsed(used_total, cap_total, capacity), u)

\* Mutant: the root of the mean of the squares, not of their sum.
DeviationMean(g, u, es) ==
  LET cap_total == SumOver(es, g.cap)
      used_total == SumOver(es, u)
      c == GCDOver({g.cap[e] : e \in es}, cap_total)
      sq == [e \in es |-> ((u[e] * cap_total - used_total * g.cap[e]) \div c)
                          * ((u[e] * cap_total - used_total * g.cap[e]) \div c)]
  IN [n |-> SumOver(es, sq) * Cardinality(es),
      d |-> IF es = {} THEN 1 ELSE (cap_total \div c) * Cardinality(es),
      zero |-> \A e \in es : NoDeviation(used_total, cap_total, g.cap[e], u[e]),
      rounded |-> used_total > 0
                  /\ \E e \in es : OptUsed(used_total, cap_total, g.cap[e]).rounded]

\* The ideal-split deviation over the edges es of graph g with used values
\* u: the code returns
\* sqrt(sum(abs(used - (used_total / cap_total) * capacity) ** 2)).  The
\* value is kept as [n, d, zero, rounded]: sqrt(n) / d is the result in exact
\* arithmetic, with d = cap_total / c, n = sum(((used * cap_total -
\* used_total * capacity) / c) ** 2) and c a common divisor of the
\* capacities; zero tells whether the double the code returns is 0.0, that
\* is whether every used equals its double opt_used; rounded tells whether a
\* quotient or product of the computation was rounded, so that the double
\* may differ from sqrt(n) / d.
Deviation(g, u, es) ==
  LET cap_total == SumOver(es, g.cap)
      used_total == SumOver(es, u)
      c == GCDOver({g.cap[e] : e \in es}, cap_total)
      sq == [e \in es |-> ((u[e] * cap_total - used_total * g.cap[e]) \div c)
                          * ((u[e] * cap_total - used_total * g.cap[e]) \div c)]
  IN [n |-> SumOver(es, sq),
      d |-> IF es = {} THEN 1 ELSE cap_total \div c,
      zero |-> \A e \in es : NoDeviation(used_total, cap_total, g.cap[e], u[e]),
      rounded |-> used_total > 0
                  /\ \E e \in es : OptUsed(used_total, cap_total, g.cap[e]).rounded]

\* The metrics of the graphs with small capacities for all used values
\* within capacity, computed once: graph |-> used |-> metric |-> value
metric_table ==
  LET small == SmallTopos
      within(g) == {u \in [g.edges -> 0..4] : \A e \in g.edges : u[e] <= g.cap[e]}
  IN Table(small,
           [t \in small |->
              Table(within(Topos[t]),
                    [u \in within(Topos[t]) |->
                       [rmse_links |-> Deviation(Topos[t], u, Topos[t].edges),
                        rmse_servers |-> Deviation(Topos[t], u,
                                                   ServerLinks(Topos[t]))]])])

\* A metric function applied to the used values u of the graph
Metric(name, u) ==
  IF topo \in DOMAIN metric_table /\ \A e \in Edges : u[e] \in 0..Cap[e]
  THEN metric_table[topo][u][name]
  ELSE IF name = "rmse_links" THEN Deviation(Topos[topo], u, Edges)
  ELSE Deviation(Topos[topo], u, ServerLinks(Topos[topo]))

\* rmse_links(graph): over all edges
rmse_links(u) == Metric("rmse_links", u)

\* graph.neighbors(s): the successors of s
Neighbors(s) == {e[2] : e \in {d \in Edges : d[1] = s}}

\* rmse_servers raises NotImplementedError unless every server has exactly
\* one neighbor
SingleServerLinks == \A s \in Servers : Cardinality(Neighbors(s)) = 1

\* rmse_servers(graph): over the outgoing link of every server
rmse_servers(u) == Metric("rmse_servers", u)

\* ---------------------------------------------------------------- history
\* The flows of the bag b whose expiry lies after timestep t
DueAfter(b, t) ==
  [f \in {g \in DOMAIN b : g.expiry > t} |-> b[f]]

\* ------------------------------------------------------------------- Init
\* The state after LinkBalancerSim(graph, ctrls) on the graph named t with
\* the controller list cs: no flows, used = 0.0 on every edge; sh tells
\* whether the controllers were built on the graph object handed to the
\* Simulation.  Where the assertion of __init__ fails there is no Simulation
\* object: the state is the error state.
Constructed(t, cs, sh) ==
  /\ topo = t
  /\ ctrls = cs
  /\ sw_to_ctrl = SwitchOwners(ctrls)
  /\ shared = sh
  /\ i_bound \in BOOLEAN
  /\ used = [e \in Edges |-> 0]
  /\ active_flows = <<>>
  /\ pc = IF Overlapping(cs) THEN "error" ELSE "idle"
  /\ i = 0
  /\ k = 0
  /\ all_metrics = <<>>
  /\ err = IF Overlapping(cs) THEN "AssertionError" ELSE ""
  /\ last = [op |-> "none", result |-> ""]
  /\ live = EmptyBag
  /\ seen = <<>>

\* The Simulation on the scaled two-switch graph with either controller list
Init ==
  \E cs \in {CtrlConfigs.one_ctrl, CtrlConfigs.two_ctrls} :
    Constructed("two_switch", cs, TRUE)

Config == <<topo, ctrls, sw_to_ctrl, shared, i_bound>>

\* ------------------------------------------------------ LinkBalancerSim.run
\* run(workload) is entered: the metric lists are created; an empty workload
\* returns them at once.
RunStart(empty) ==
  /\ pc = "idle"
  /\ all_metrics' = [rmse_links |-> <<>>, rmse_servers |-> <<>>]
  /\ pc' = IF empty THEN "done" ELSE "free"
  /\ last' = [op |-> "start", result |-> ""]
  /\ UNCHANGED <<Config, used, active_flows, i, k, err, live>>
  /\ seen' = <<>>

\* Mutant: the free step is not done before the requests of the timestep.
RunFreeLate ==
  /\ pc = "free"
  /\ pc' = "reqs"
  /\ k' = 0
  /\ last' = [op |-> "free", result |-> "nobucket"]
  /\ live' = DueAfter(live, i)
  /\ UNCHANGED <<Config, used, active_flows, i, all_metrics, err>>
  /\ seen' = <<>>

\* "self.free_resources(i)" at the head of timestep i
RunFree ==
  /\ pc = "free"
  /\ LET fr == free_resources(used, active_flows, i) IN
       /\ used' = fr.used
       /\ active_flows' = fr.active_flows
  /\ pc' = "reqs"
  /\ k' = 0
  /\ last' = [op |-> "free",
              result |-> IF i \in DOMAIN active_flows THEN "freed" ELSE "nobucket"]
  /\ live' = DueAfter(live, i)
  /\ UNCHANGED <<Config, i, all_metrics, err>>
  /\ seen' = <<>>

\* Mutant: the duration of a request is not checked.
ValidDurationAny(duration, is_int) == TRUE

\* "assert (isinstance(duration, int) and duration > 0)"; is_int tells
\* whether the duration is an int object (a float such as 2.0 is not)
ValidDuration(duration, is_int) == is_int /\ duration > 0

\* One pass of "for req in reqs" for the request (sw, size, duration).  The
\* history variable last names the operation "request" when the duration
\* handed in is a positive int and "malformed_request" when it is not.
Request(sw, size, duration, is_int) ==
  /\ pc = "reqs"
  /\ k' = k + 1
  /\ LET op == IF is_int /\ duration >= 1 THEN "request" ELSE "malformed_request"
         fail(e, read) == /\ pc' = "error"
                          /\ err' = e
                          /\ last' = [op |-> op, result |-> "error"]
                          /\ seen' = read
                          /\ UNCHANGED <<used, active_flows, live>>
     IN
     IF ~ValidDuration(duration, is_int) THEN fail("AssertionError", <<>>)
     ELSE IF sw \notin DOMAIN sw_to_ctrl THEN fail("KeyError", <<>>)
     ELSE LET hr == handle_request(ctrls[sw_to_ctrl[sw]], sw, size) IN
          IF hr.status # "ok" THEN fail(hr.status, CtrlUsed)
          ELSE LET al == allocate_resources(used, active_flows, hr.path, size,
                                            duration + i) IN
               /\ used' = al.used
               /\ active_flows' = al.active_flows
               /\ last' = [op |-> op,
                           result |-> IF hr.path = <<>> THEN "nopath"
                                      ELSE IF al.done THEN "allocated"
                                      ELSE "rejected"]
               /\ live' = IF al.done
                          THEN live (+) SetToBag({[expiry |-> i + duration,
                                                   path |-> hr.path,
                                                   resources |-> size]})
                          ELSE live
               /\ seen' = CtrlUsed
               /\ UNCHANGED <<pc, err>>
  /\ UNCHANGED <<Config, i, all_metrics>>

\* A request of a workload whose timesteps hold at most MaxReqs requests
RunRequest(sw, size, duration, is_int) ==
  /\ k < MaxReqs
  /\ Request(sw, size, duration, is_int)

\* The end of timestep i: every metric function is applied to the graph and
\* its value appended; the loop then goes to the next timestep of the
\* workload (more) or run returns.
Measure(more) ==
  /\ pc = "reqs"
  /\ IF SingleServerLinks
     THEN /\ all_metrics' = [rmse_links |-> Append(all_metrics.rmse_links, rmse_links(used)),
                             rmse_servers |-> Append(all_metrics.rmse_servers,
                                                     rmse_servers(used))]
          /\ pc' = IF more THEN "free" ELSE "done"
          /\ i' = IF more THEN i + 1 ELSE i
          /\ err' = err
          /\ last' = [op |-> "measure", result |-> "ok"]
     ELSE /\ pc' = "error"
          /\ err' = "NotImplementedError"
          /\ last' = [op |-> "measure", result |-> "error"]
          /\ UNCHANGED <<all_metrics, i>>
  /\ UNCHANGED <<Config, used, active_flows, k, live>>
  /\ seen' = <<>>

\* The end of a timestep of a workload of at most MaxT timesteps
RunMeasure(more) ==
  /\ more => i + 1 < MaxT
  /\ Measure(more)

Next ==
  \/ \E empty \in BOOLEAN : RunStart(empty)
  \/ RunFree
  \/ \E sw \in Switches, size \in 1..MaxSize, duration \in 0..MaxDur,
        is_int \in BOOLEAN :
       RunRequest(sw, size, duration, is_int)
  \/ \E more \in BOOLEAN : RunMeasure(more)

Spec == Init /\ [][Next]_vars

\* ------------------------------------------- direct calls on the ledger
\* The edge e lies on the path
OnPath(e, path) == \E j \in 1..(Len(path) - 1) : <<path[j], path[j + 1]>> = e

\* Sum of resources over the recorded flows whose path contains edge e
LedgerSum(af, e) ==
  LET S == UNION {{<<t, j>> : j \in 1..Len(af[t])} : t \in DOMAIN af}
  IN SumOver(S, [x \in S |-> IF OnPath(e, af[x[1]][x[2]][1])
                            THEN af[x[1]][x[2]][2] ELSE 0])

\* The paths callers hand to allocate_resources: the shortest paths from a
\* server to a switch, or no path.
CallPaths ==
  {shortest_path[topo][<<s, sw>>] : s \in Servers, sw \in Switches} \cup {<<>>}

\* sim.allocate_resources(path, resources, whenfree), called directly as the
\* unit tests do
AllocateCall(path, resources, whenfree) ==
  /\ pc = "idle"
  /\ LET al == allocate_resources(used, active_flows, path, resources, whenfree) IN
       /\ used' = al.used
       /\ active_flows' = al.active_flows
       /\ last' = [op |-> "allocate",
                   result |-> IF path = <<>> THEN "nopath"
                              ELSE IF al.done THEN "allocated"
                              ELSE "rejected"]
  /\ UNCHANGED <<Config, pc, i, k, all_metrics, err, live>>
  /\ seen' = <<>>

\* sim.free_resources(timestep), called directly
FreeCall(timestep) ==
  /\ pc = "idle"
  /\ LET fr == free_resources(used, active_flows, timestep) IN
       /\ used' = fr.used
       /\ active_flows' = fr.active_flows
  /\ last' = [op |-> "free",
              result |-> IF timestep \in DOMAIN active_flows THEN "freed"
                         ELSE "nobucket"]
  /\ UNCHANGED <<Config, pc, i, k, all_metrics, err, live>>
  /\ seen' = <<>>

LedgerNext ==
  \/ \E path \in CallPaths, resources \in 1..MaxSize, whenfree \in 0..MaxKey :
       AllocateCall(path, resources, whenfree)
  \/ \E timestep \in 0..MaxKey : FreeCall(timestep)

\* The ledger operations read neither the controllers nor the name i: one
\* construction stands for all of them.
InitLedger ==
  /\ Init
  /\ ctrls = CtrlConfigs.one_ctrl
  /\ shared
  /\ ~i_bound

SpecLedger == InitLedger /\ [][LedgerNext]_vars

\* The caller writes the used attributes of the graph itself, as
\* test_zero_metric and test_metric_unbalanced do: graph[u][v]["used"] = ...
\* on every edge
SetUsed(u) ==
  /\ pc = "idle"
  /\ used' = u
  /\ last' = [op |-> "set", result |-> ""]
  /\ UNCHANGED <<Config, active_flows, pc, i, k, all_metrics, err, live>>
  /\ seen' = <<>>

\* The used attributes are the ones the ledger calls have left
Untouched == \A e \in Edges : used[e] = LedgerSum(active_flows, e)

\* The ledger calls on a graph whose used attributes the caller writes
\* once (util = 0.0 while flows are recorded): allocate and free calls, the
\* write, then free calls
TamperNext ==
  \/ Untouched /\ LedgerNext
  \/ Untouched /\ (\E e \in Edges : used[e] # 0) /\ SetUsed([e \in Edges |-> 0])
  \/ \E timestep \in 0..MaxKey : FreeCall(timestep)

SpecTamper == InitLedger /\ [][TamperNext]_vars

\* The Simulation on the scaled two-switch graph with any of the controller
\* lists, the one that leaves sw2 without a controller (as the metric tests
\* build it) and the overlapping one included
InitPartition ==
  \E n \in DOMAIN CtrlConfigs : Constructed("two_switch", CtrlConfigs[n], TRUE)

SpecPartition == InitPartition /\ [][Next]_vars

\* The Simulation on the graph where s2 does not reach sw1
InitOneWay ==
  \E cs \in {CtrlConfigs.one_ctrl, CtrlConfigs.two_ctrls} :
    Constructed("one_way", cs, TRUE)

SpecOneWay == InitOneWay /\ [][Next]_vars

\* --------------------------------------------- direct calls of a metric
\* sim.rmse_links(graph), called directly as the metric tests do; the value
\* is kept as the only element of the result list
MetricCall ==
  /\ pc = "idle"
  /\ last.op = "set"
  /\ all_metrics' = [rmse_links |-> <<rmse_links(used)>>, rmse_servers |-> <<>>]
  /\ last' = [op |-> "metric", result |-> "ok"]
  /\ UNCHANGED <<Config, used, active_flows, pc, i, k, err, live>>
  /\ seen' = <<>>

\* The used values the metric is called on: every edge at the same whole
\* percentage p of its capacity, or at p on some edges and p + 1 on the others
UsedInputs ==
  LET pct == 0..100
      steps(p) == {d \in [Edges -> {0, 1}] : \A g \in Edges : p + d[g] \in pct}
  IN UNION {{[e \in Edges |-> ((p + d[e]) * Cap[e]) \div 100] : d \in steps(p)} :
              p \in pct}

\* test_zero_metric and test_metric_unbalanced: TestSimulator.graph (the
\* graph of two_switch_topo()) with the single controller of sw1; the used
\* attributes are written, then the metric is taken.  A write replaces the
\* used value of every edge and the metric reads nothing else, so one write
\* and one call on the fresh graph stand for every round of the tests' loops.
InitMetric == Constructed("two_switch_topo", CtrlConfigs.sw1_ctrl, TRUE) /\ ~i_bound

NextMetric ==
  \/ last.op = "none" /\ \E u \in UsedInputs : SetUsed(u)
  \/ MetricCall

SpecMetric == InitMetric /\ [][NextMetric]_vars

\* test_metric_unbalanced_known: the graph with capacity 100 on every edge;
\* its used attributes are 100.0 or 50.0, and 0.0 is covered as well
KnownInputs == [Edges -> {0, 50, 100}]

InitKnown == Constructed("unbalanced_known", CtrlConfigs.sw1_ctrl, TRUE) /\ ~i_bound

NextKnown ==
  \/ last.op = "none" /\ \E u \in KnownInputs : SetUsed(u)
  \/ MetricCall

SpecKnown == InitKnown /\ [][NextKnown]_vars

\* ------------------------------------------------ the unit-request runs
\* TestTwoSwitch.SWITCHES and TestTwoSwitch.TIMESTEPS
SWITCHES == <<"sw1", "sw2">>

TIMESTEPS == 10

\* The request list of one timestep of unit_workload(switches, size = 1,
\* duration = 2, timesteps): one request of size 1 and duration 2 at every
\* switch of the list, in list order
unit_workload(switches) == [j \in 1..Len(switches) |-> <<switches[j], 1, 2>>]

\* The next request of the timestep's list reqs is handled
NextRequest(reqs) ==
  /\ k < Len(reqs)
  /\ Request(reqs[k + 1][1], reqs[k + 1][2], reqs[k + 1][3], TRUE)

\* The list reqs is exhausted: the timestep ends; the workload has at most
\* TIMESTEPS timesteps
EndTimestep(reqs, more) ==
  /\ k = Len(reqs)
  /\ more => i + 1 < TIMESTEPS
  /\ Measure(more)

\* test_two_ctrl_unit_reqs and test_two_ctrl_single_step: two_ctrls() on
\* two_switch_topo(); the controllers of the tests hold a graph object of
\* their own, and the run with controllers on the Simulation's graph is
\* covered as well.
InitFair == \E sh \in BOOLEAN : Constructed("two_switch_topo", CtrlConfigs.two_ctrls, sh)

NextFair ==
  \/ RunStart(FALSE)
  \/ RunFree
  \/ NextRequest(unit_workload(SWITCHES))
  \/ \E more \in BOOLEAN : EndTimestep(unit_workload(SWITCHES), more)

SpecFair == InitFair /\ [][NextFair]_vars

\* test_one_switch_unit_reqs: one controller, built on graph2, the graph
\* handed to the Simulation; the workload is unit_workload(2 * ['sw1'], ...)
InitBalance == Constructed("one_switch", CtrlConfigs.sw1_ctrl, TRUE)

NextBalance ==
  \/ RunStart(FALSE)
  \/ RunFree
  \/ NextRequest(unit_workload(<<"sw1", "sw1">>))
  \/ \E more \in BOOLEAN : EndTimestep(unit_workload(<<"sw1", "sw1">>), more)

SpecBalance == InitBalance /\ [][NextBalance]_vars

\* ================================================================ claims
\* Number of recorded flows whose path contains edge e
FlowsOn(af, e) ==
  Cardinality({x \in UNION {{<<t, j>> : j \in 1..Len(af[t])} : t \in DOMAIN af} :
                 OnPath(e, af[x[1]][x[2]][1])})

C3_AllOrNothing ==
  \A path \in CallPaths \ {<<>>}, amount \in 1..MaxSize, expiry \in 0..MaxKey :
    LET al == allocate_resources(used, active_flows, path, amount, expiry) IN
    IF \E j \in 1..(Len(path) - 1) :
         used[<<path[j], path[j + 1]>>] + amount > Cap[<<path[j], path[j + 1]>>]
    THEN al.used = used /\ al.active_flows = active_flows
    ELSE /\ \A e \in Edges :
              al.used[e] = used[e] + (IF OnPath(e, path) THEN amount ELSE 0)
         /\ DOMAIN al.active_flows = DOMAIN active_flows \cup {expiry}
         /\ \A t \in DOMAIN active_flows \ {expiry} :
              al.active_flows[t] = active_flows[t]
         /\ al.active_flows[expiry] =
              (IF expiry \in DOMAIN active_flows THEN active_flows[expiry]
               ELSE <<>>) \o << <<path, amount>> >>

\* An allocation was just refused while flows are recorded.
C3_Witness ==
  /\ last = [op |-> "allocate", result |-> "rejected"]
  /\ DOMAIN active_flows # {}

Owner(sw) == ctrls[sw_to_ctrl[sw]]

\* The candidate paths of a request at sw, one per server of the controller
Candidates(ctrl, sw) ==
  [j \in 1..Len(ctrl.servers) |-> shortest_path[topo][<<ctrl.servers[j], sw>>]]

\* The considered links of a path
ConsideredLinks(ctrl, path) ==
  {l \in Range(Links(path)) : l[1] \in Range(ctrl.switches) \/ l[2] \in Range(ctrl.switches)}

\* Some considered link has (used + size) / capacity > 1
Disqualified(ctrl, path, size) ==
  \E l \in ConsideredLinks(ctrl, path) : CtrlUsed[l] + size > Cap[l]

\* score = maximum of (used + size) / capacity over the considered links
Score(ctrl, path, size) ==
  LET ms == {<<CtrlUsed[l] + size, Cap[l]>> : l \in ConsideredLinks(ctrl, path)}
  IN CHOOSE m \in ms : \A n \in ms : n[1] * m[2] <= m[1] * n[2]

\* The candidates with a score strictly below 1.0
Qualifying(ctrl, sw, size) ==
  {j \in 1..Len(ctrl.servers) :
     /\ ConsideredLinks(ctrl, Candidates(ctrl, sw)[j]) # {}
     /\ LET m == Score(ctrl, Candidates(ctrl, sw)[j], size) IN m[1] < m[2]}

\* The min-max path: lowest score, the first server of the list on a tie
MinMaxPath(ctrl, sw, size) ==
  LET c == Candidates(ctrl, sw)
      q == Qualifying(ctrl, sw, size)
      best == CHOOSE j \in q :
                \A h \in q :
                  LET mj == Score(ctrl, c[j], size)
                      mh == Score(ctrl, c[h], size)
                  IN \/ mj[1] * mh[2] < mh[1] * mj[2]
                     \/ (mj[1] * mh[2] = mh[1] * mj[2] /\ j <= h)
  IN c[best]

\* C5: handle_request never returns a path one of whose considered links has
\* a projected utilization above 1.
C5_NeverDisqualified ==
  \A sw \in DOMAIN sw_to_ctrl, size \in 1..MaxSize :
    LET hr == handle_request(Owner(sw), sw, size) IN
    (hr.status = "ok" /\ hr.path # <<>>) => ~Disqualified(Owner(sw), hr.path, size)

\* C6: when some candidate has a score strictly below 1.0, handle_request
\* returns the candidate of lowest score, the first in server order on a tie.
C6_ReturnsMinMax ==
  \A sw \in DOMAIN sw_to_ctrl, size \in 1..MaxSize :
    Qualifying(Owner(sw), sw, size) # {} =>
      LET hr == handle_request(Owner(sw), sw, size) IN
      hr.status = "ok" /\ hr.path = MinMaxPath(Owner(sw), sw, size)

\* C7: when every candidate path has a considered link that would be
\* oversubscribed, the request ends without an error, changes no used value
\* and no bucket, and run goes on with the next demand.
C7_DropsQuietly ==
  [][\A sw \in DOMAIN sw_to_ctrl, size \in 1..MaxSize, duration \in 1..MaxDur :
       (/\ RunRequest(sw, size, duration, TRUE)
        /\ \A j \in 1..Len(Owner(sw).servers) :
             Disqualified(Owner(sw), Candidates(Owner(sw), sw)[j], size))
       => (pc' = "reqs" /\ err' = "" /\ used' = used
           /\ active_flows' = active_flows)]_vars

\* ---- the flows of run
\* Sum of resources over the flows of bag b whose path contains edge e
BagSum(b, e) ==
  SumOver(DOMAIN b, [f \in DOMAIN b |->
                       IF OnPath(e, f.path) THEN f.resources * b[f] ELSE 0])

\* The recorded flows as a bag of [expiry, path, resources]
LedgerBag(af) ==
  LET S == UNION {{<<t, j>> : j \in 1..Len(af[t])} : t \in DOMAIN af}
      rec(x) == [expiry |-> x[1], path |-> af[x[1]][x[2]][1],
                 resources |-> af[x[1]][x[2]][2]]
  IN [r \in {rec(x) : x \in S} |-> Cardinality({x \in S : rec(x) = r})]

\* C8 as stated: every flow admitted during run is destroyed, so none is
\* left recorded when run returns.
C8_AllDestroyed == pc = "done" => DOMAIN active_flows = {}

\* C8, amended: a flow admitted at t with duration d is removed from the
\* ledger, its resources subtracted on every link of its path, by the free
\* step of timestep t + d when run reaches that timestep; no recorded flow
\* has an expiry whose free step is over.
C8_DestroyedWhenDue ==
  /\ \A t \in DOMAIN active_flows : t > i \/ (t = i /\ pc = "free")
  /\ LedgerBag(active_flows) \sqsubseteq live
  /\ \A e \in Edges : used[e] <= BagSum(live, e)

\* The bucket of timestep i was just freed while a later flow stays recorded.
C8_Witness ==
  /\ pc = "reqs"
  /\ last = [op |-> "free", result |-> "freed"]
  /\ DOMAIN active_flows # {}

\* C9: a flow is never released early and never twice: while the flow is not
\* due it is recorded and its resources count in used on every link of its
\* path (so in the metric samples of timesteps t .. t+d-1), and
\* free_resources for a timestep without a bucket, an already freed one
\* included, changes no edge and no bucket.
C9_NeverEarlyNeverTwice ==
  /\ live \sqsubseteq LedgerBag(active_flows)
  /\ \A e \in Edges : used[e] >= BagSum(live, e)
  /\ \A t \in 0..(MaxT + MaxDur) :
       t \notin DOMAIN active_flows =>
         free_resources(used, active_flows, t) =
           [used |-> used, active_flows |-> active_flows]

\* The free step of a later timestep found no bucket and left the flows
\* admitted before it in place.
C9_Witness ==
  /\ pc = "reqs"
  /\ i >= 1
  /\ last = [op |-> "free", result |-> "nobucket"]
  /\ live # EmptyBag

\* C10: free_resources(t) is done before the first request of timestep t:
\* while the demands of t are selected and admitted, no bucket of expiry t is
\* recorded and used holds only the resources of flows that expire after t.
C10_FreeBeforeAdmit ==
  pc = "reqs" =>
    /\ i \notin DOMAIN active_flows
    /\ \A e \in Edges :
         used[e] = BagSum([f \in {g \in DOMAIN live : g.expiry # i} |-> live[f]], e)

\* The free step of a later timestep has just released a bucket, before any
\* request of that timestep was handled.
C10_Witness ==
  /\ pc = "reqs"
  /\ i >= 1
  /\ k = 0
  /\ last = [op |-> "free", result |-> "freed"]

\* ---- the order of the demands of a timestep
\* C11: the demands of a timestep are handled in list order and each
\* allocation is committed before the next selection: the used values that
\* handle_request read for the demand just handled are, on every edge, the
\* resources of all flows recorded before it (the flows of earlier timesteps
\* that are not yet due and those of demands 1..k-1 of this timestep); the
\* flow admitted for the demand itself comes on top of them.
C11_InOrder ==
  (last.op = "request" /\ last.result # "error") =>
    /\ seen # <<>>
    /\ last.result \in {"rejected", "nopath"} =>
         \A e \in Edges : seen[e] = LedgerSum(active_flows, e)
    /\ last.result = "allocated" =>
         \E t \in DOMAIN active_flows :
           LET f == active_flows[t][Len(active_flows[t])] IN
           \A e \in Edges :
             seen[e] + (IF OnPath(e, f[1]) THEN f[2] ELSE 0)
               = LedgerSum(active_flows, e)

\* The second demand of the first timestep was admitted after reading the
\* first demand's allocation.
C11_Witness ==
  /\ i = 0
  /\ k = 2
  /\ last = [op |-> "request", result |-> "allocated"]
  /\ \E e \in Edges : seen[e] > 0

\* ---- the unit-request scenarios
\* C12: on two_switch_topo() with two_ctrls() and one size-1 duration-2
\* demand at sw1 and one at sw2 in every timestep, run raises nothing, the
\* two server links carry equal used at the end of every timestep and every
\* value of rmse_servers is 0.0.
C12_Fairness ==
  /\ pc # "error"
  /\ pc \notin {"idle"} =>
       \A t \in 1..Len(all_metrics.rmse_servers) : all_metrics.rmse_servers[t].zero
  /\ last.op = "measure" =>
       /\ used[<<"s1", "sw1">>] = used[<<"s2", "sw2">>]
       /\ used[<<"s1", "sw1">>] > 0
       /\ Len(all_metrics.rmse_servers) = (IF pc = "done" THEN i + 1 ELSE i)

\* The run of TIMESTEPS timesteps has returned with flows on both server links.
C12_Witness ==
  /\ pc = "done"
  /\ Len(all_metrics.rmse_servers) = TIMESTEPS
  /\ used[<<"s1", "sw1">>] = 2
  /\ used[<<"s2", "sw2">>] = 2

\* C13: on the one-switch graph with one controller and two size-1
\* duration-2 demands at sw1 in every timestep, run raises nothing, the two
\* demands of a timestep are admitted on paths from different servers, both
\* links carry equal used at the end of every timestep and every value of
\* rmse_links is 0.
C13_Balance ==
  /\ pc # "error"
  /\ pc # "idle" =>
       \A t \in 1..Len(all_metrics.rmse_links) : all_metrics.rmse_links[t].zero
  /\ (pc = "reqs" /\ k = 2) =>
       /\ last = [op |-> "request", result |-> "allocated"]
       /\ i + 2 \in DOMAIN active_flows
       /\ Len(active_flows[i + 2]) = 2
       /\ active_flows[i + 2][1][1][1] # active_flows[i + 2][2][1][1]
  /\ last.op = "measure" =>
       /\ used[<<"s1", "sw1">>] = used[<<"s2", "sw1">>]
       /\ used[<<"s1", "sw1">>] > 0

\* The run of TIMESTEPS timesteps has returned with two flows on either link.
C13_Witness ==
  /\ pc = "done"
  /\ Len(all_metrics.rmse_links) = TIMESTEPS
  /\ used[<<"s1", "sw1">>] = 2
  /\ used[<<"s2", "sw1">>] = 2

\* ---- malformed durations
\* C14: a request whose duration is not a positive integer ends run with an
\* AssertionError before admission is attempted: handle_request reads
\* nothing, no edge and no bucket changes, no flow is created, and no step
\* of run follows the error.
C14_DurationRejected ==
  [][/\ pc # "error"
     /\ last'.op = "malformed_request" =>
          /\ pc' = "error"
          /\ err' = "AssertionError"
          /\ seen' = <<>>
          /\ used' = used
          /\ active_flows' = active_flows
          /\ live' = live]_vars

\* A later timestep's request was rejected for its duration while flows
\* admitted before it are recorded.
C14_Witness ==
  /\ pc = "error"
  /\ last = [op |-> "malformed_request", result |-> "error"]
  /\ i >= 1
  /\ DOMAIN active_flows # {}

\* ---- construction
\* C15: construction fails when a switch is listed by more than one
\* controller; after a successful construction every switch node of the
\* graph has exactly one owning controller, so that no demand at a switch
\* of the graph fails to resolve to an owner.
C15_PartitionValidated ==
  /\ Overlapping(ctrls) => (pc = "error" /\ err = "AssertionError")
  /\ ~Overlapping(ctrls) =>
       \A sw \in Switches :
         /\ sw \in DOMAIN sw_to_ctrl
         /\ Cardinality({c \in 1..Len(ctrls) : sw \in Range(ctrls[c].switches)}) = 1
  /\ err # "KeyError"

\* ---- the ledger on a graph written from outside
\* C16: free_resources never leaves an edge with used below 0 silently: a
\* call whose subtraction drives an edge below 0 ends in an error state.
C16_NegativeIsFatal ==
  (\E e \in Edges : used[e] < 0) => pc = "error"

\* ---- unreachable servers
\* C17: when a server of the controller's list has no directed path to the
\* entry switch, handle_request does not fail: it returns the min-max path
\* among the qualifying paths of the reachable servers, or no path when
\* there is none.
C17_UnreachableSkipped ==
  \A sw \in DOMAIN sw_to_ctrl, size \in 1..MaxSize :
    (\E j \in 1..Len(Owner(sw).servers) : Candidates(Owner(sw), sw)[j] = <<>>) =>
      LET hr == handle_request(Owner(sw), sw, size) IN
      /\ hr.status = "ok"
      /\ hr.path = IF Qualifying(Owner(sw), sw, size) = {} THEN <<>>
                   ELSE MinMaxPath(Owner(sw), sw, size)

\* ---- the result of run
\* C18: run returns for rmse_links and rmse_servers one value per timestep
\* in timestep order, the value of timestep t being the metric of the graph
\* after the free and admit steps of t: no request with a well-formed
\* duration ends run, whether it is admitted or dropped; both lists hold one
\* value per finished timestep; the value appended at the end of a timestep
\* is the metric of the used values of that moment.
C18_OneValuePerTimestep ==
  /\ last # [op |-> "request", result |-> "error"]
  /\ pc \in {"free", "reqs", "done"} =>
       LET finished == IF pc = "done" /\ last.op = "measure" THEN i + 1 ELSE i IN
       /\ Len(all_metrics.rmse_links) = finished
       /\ Len(all_metrics.rmse_servers) = finished
  /\ last = [op |-> "measure", result |-> "ok"] =>
       /\ all_metrics.rmse_links[Len(all_metrics.rmse_links)] = rmse_links(used)
       /\ all_metrics.rmse_servers[Len(all_metrics.rmse_servers)] = rmse_servers(used)

\* ---- the value of rmse_links
\* Every edge carries the same fraction used / capacity
Proportional(u) ==
  \A e \in Edges, g \in Edges : u[e] * Cap[g] = u[g] * Cap[e]

\* Every edge carries the fraction m / 4 of its capacity
QuarterLoad(u, m) == \A e \in Edges : 4 * u[e] = m * Cap[e]

\* C19 as stated: rmse_links is 0 exactly when every edge has
\* used = f * capacity for one common fraction f.
C19_ZeroIffProportional ==
  last.op = "metric" => (all_metrics.rmse_links[1].zero <=> Proportional(used))

\* C19, amended: for whole-number used and capacity values, rmse_links is
\* 0.0 when every edge has used = f * capacity for a common f among 0, 1/4,
\* 1/2, 3/4 and 1, and is not 0 when two edges have different
\* used / capacity ratios.
C19_ZeroWhenQuarters ==
  last.op = "metric" =>
    /\ (\E m \in 0..4 : QuarterLoad(used, m)) => all_metrics.rmse_links[1].zero
    /\ ~Proportional(used) => ~all_metrics.rmse_links[1].zero

\* The metric was taken with every edge at half of its capacity.
C19_Witness ==
  /\ last.op = "metric"
  /\ QuarterLoad(used, 2)
  /\ all_metrics.rmse_links[1].zero

\* C20: rmse_links is the square root of the sum over all edges of
\* (used - (used_total / cap_total) * capacity)^2: the value sqrt(n) / d it
\* returns has n / d^2 equal to that sum (here with both sides times d^2),
\* and for capacity 100 everywhere with used 100, 50, 50, 100 no step of the
\* computation is rounded, the sum is 2500 and the value is 50.0.
C20_RootOfSum ==
  last.op = "metric" =>
    LET v == all_metrics.rmse_links[1]
        cap_total == SumOver(Edges, Cap)
        used_total == SumOver(Edges, used)
        dev == [e \in Edges |->
                  v.d * used[e] - (used_total * Cap[e] * v.d) \div cap_total]
        sq == [e \in Edges |-> dev[e] * dev[e]]
    IN /\ \A e \in Edges : (used_total * Cap[e] * v.d) % cap_total = 0
       /\ v.n = SumOver(Edges, sq)
       /\ (/\ used[<<"s1", "sw1">>] = 100 /\ used[<<"sw1", "sw2">>] = 50
           /\ used[<<"sw2", "sw1">>] = 50 /\ used[<<"s2", "sw2">>] = 100) =>
            /\ ~v.rounded
            /\ v.n = 2500 * v.d * v.d
            /\ v.n = (50 * v.d) * (50 * v.d)

\* The metric was taken on the known case.
C20_Witness ==
  /\ last.op = "metric"
  /\ topo = "unbalanced_known"
  /\ used[<<"s1", "sw1">>] = 100 /\ used[<<"sw1", "sw2">>] = 50
  /\ used[<<"sw2", "sw1">>] = 50 /\ used[<<"s2", "sw2">>] = 100
  /\ ~all_metrics.rmse_links[1].zero

\* ---- selection and commit
\* C21: in run, whenever handle_request returns a path all of whose links
\* are considered by the selecting controller, the allocate_resources call
\* that follows succeeds: no link of the path is refused for its capacity.
C21_SelectionCommits ==
  pc = "reqs" =>
    \A sw \in DOMAIN sw_to_ctrl, size \in 1..MaxSize :
      LET hr == handle_request(Owner(sw), sw, size) IN
      (/\ hr.status = "ok"
       /\ hr.path # <<>>
       /\ \A j \in 1..(Len(hr.path) - 1) : Considered(Owner(sw), Links(hr.path)[j]))
      => ~Rejected(used, hr.path, size)

\* ---- the keys of the ledger
\* C22: at the end of every timestep t of run, and while the requests of t
\* are handled, every key of active_flows is greater than t and every
\* bucket holds at least one flow.
C22_NoStaleBucket ==
  /\ pc \in {"reqs", "done"} => \A key \in DOMAIN active_flows : key > i
  /\ (pc = "free" /\ last.op = "measure") =>
       \A key \in DOMAIN active_flows : key > i - 1
  /\ pc \in {"free", "reqs", "done"} =>
       \A key \in DOMAIN active_flows : Len(active_flows[key]) >= 1

\* A timestep has ended with the bucket of the next timestep recorded.
C22_Witness ==
  /\ pc = "free"
  /\ last = [op |-> "measure", result |-> "ok"]
  /\ i >= 1
  /\ i \in DOMAIN active_flows

====
